---- MODULE Spec2Model ----
(***************************************************************************)
(* Model of the control-mapping tools: util/mappingsToHeatmaps.py (heatmap *)
(* layers from control-to-technique mappings) and src/list_mappings.py     *)
(* (the tabular report).  Python strings are sequences of one-character    *)
(* strings, so that regular-expression search, split, replace and          *)
(* concatenation are computed, not assumed.                                *)
(***************************************************************************)
EXTENDS Integers, Sequences, FiniteSets, TLC

VARIABLES controls, attackdata, mappings, techniques, x_mitre, pc, i,
          familyIDToControls, familyIDToName, propertyValueToControls,
          rows, result, outlayers, pending, files, nwritten

\* controls, attackdata, mappings: the three stores (mappingsToHeatmaps.py lines
\*   196-208; the bundles of list_mappings.py lines 128-141), or the arguments
\*   of the function under study
\* techniques, x_mitre: the arguments of layer and of getLayersByProperty
\* pc, i: the position in the code and the index of the running for loop
\* familyIDToControls, familyIDToName: the dicts of lines 69-70
\* propertyValueToControls: the dict of line 130
\* rows: the list of list_mappings.py line 15
\* result: what the function under study returned or raised
\* outlayers: the list layers of lines 212-215
\* pending: the keys of get_x_mitre(controls) not yet iterated (line 213)
\* files, nwritten: the files under the output folder and the number of
\*   open(..., "w") done (lines 228-229)
vars == <<controls, attackdata, mappings, techniques, x_mitre, pc, i,
          familyIDToControls, familyIDToName, propertyValueToControls,
          rows, result, outlayers, pending, files, nwritten>>

(***************************************************************************)
(* Bounds of the model.                                                    *)
(***************************************************************************)
MaxTechs == 3
MaxScore == 3
MaxTechMappings == 3
MaxIdLen == 3
MaxFamControls == 2
MaxPropControls == 2
MaxDfMappings == 2
MaxControls == 2
MaxMappings == 2
MaxOvControls == 2
MaxOvMappings == 2

(***************************************************************************)
(* Strings.                                                                *)
(***************************************************************************)
\* code points of the characters the model uses, in ascending order
AsciiOrder ==
  <<" ", "(", ")", "-", ".", "/", "1", "2", "7", "=", "A", "B", "C", "H", "L",
    "P", "S", "T", "_", "a", "b", "c", "e", "f", "i", "j", "l", "m", "n", "o",
    "p", "r", "s", "t", "v", "w", "x", "y">>

Ord(c) == CHOOSE k \in 1..Len(AsciiOrder) : AsciiOrder[k] = c

\* Python's str < str: lexicographic by code point
RECURSIVE StrLess(_, _)
StrLess(a, b) ==
  IF b = <<>> THEN FALSE
  ELSE IF a = <<>> THEN TRUE
  ELSE IF a[1] = b[1] THEN StrLess(Tail(a), Tail(b))
  ELSE Ord(a[1]) < Ord(b[1])

\* sorted(list of str): insertion sort, stable
RECURSIVE InsertSorted(_, _)
InsertSorted(s, x) ==
  IF s = <<>> THEN <<x>>
  ELSE IF StrLess(x, s[1]) THEN <<x>> \o s
  ELSE <<s[1]>> \o InsertSorted(Tail(s), x)

RECURSIVE Sorted(_)
Sorted(s) == IF s = <<>> THEN <<>> ELSE InsertSorted(Sorted(SubSeq(s, 1, Len(s) - 1)), s[Len(s)])

\* list(set(l)): the elements of l without repetition
RECURSIVE Unique(_)
Unique(l) ==
  IF l = <<>> THEN <<>>
  ELSE LET init == Unique(SubSeq(l, 1, Len(l) - 1))
           x == l[Len(l)]
       IN IF \E k \in 1..Len(init) : init[k] = x THEN init ELSE Append(init, x)

SeqToSet(s) == {s[k] : k \in 1..Len(s)}

Min(S) == CHOOSE x \in S : \A y \in S : x <= y
Max(S) == CHOOSE x \in S : \A y \in S : x >= y

(***************************************************************************)
(* Object stores.  An object is a record with id, type,                    *)
(* external_references (the external ids, in order) and props (the other   *)
(* keys of the object, a function from key to value).                      *)
(***************************************************************************)
None == [none |-> TRUE]

COA == "course-of-action"

Ok(v) == [ok |-> TRUE, val |-> v]
Raise(e) == [ok |-> FALSE, err |-> e]

\* MemoryStore.get(id): the object of that id, or None
Get(store, id) ==
  IF \E k \in 1..Len(store) : store[k].id = id
  THEN store[CHOOSE k \in 1..Len(store) : store[k].id = id]
  ELSE None

\* query([Filter("type", "=", type)]): the objects of the type, in store order
RECURSIVE QueryType(_, _)
QueryType(store, type) ==
  IF store = <<>> THEN <<>>
  ELSE IF store[1].type = type THEN <<store[1]>> \o QueryType(Tail(store), type)
  ELSE QueryType(Tail(store), type)

(***************************************************************************)
(* technique() and layer()                                                 *)
(***************************************************************************)
technique(attackID, mapped_controls) ==
  [techniqueID |-> attackID,
   score |-> Len(mapped_controls),
   comment |-> Sorted(mapped_controls)]

Scores(techs) == {techs[k].score : k \in 1..Len(techs)}

IntensityColors == <<"#ACD0E6", "#08336E">>
NeutralColors == <<"#ffffff", "#66b1ff">>

\* the gradient without the override of line 25
GradientNoOverride(techs) ==
  LET min_mappings == IF Len(techs) > 0 THEN Min(Scores(techs)) ELSE 0
      max_mappings == IF Len(techs) > 0 THEN Max(Scores(techs)) ELSE 100
  IN IF max_mappings - min_mappings = 0
     THEN [colors |-> NeutralColors, minValue |-> min_mappings, maxValue |-> max_mappings]
     ELSE [colors |-> IntensityColors, minValue |-> min_mappings, maxValue |-> max_mappings]

Gradient(techs) ==
  LET min_mappings == IF Len(techs) > 0 THEN Min(Scores(techs)) ELSE 0
      max_mappings == IF Len(techs) > 0 THEN Max(Scores(techs)) ELSE 100
  IN IF max_mappings - min_mappings = 0
     THEN [colors |-> NeutralColors, minValue |-> 0, maxValue |-> max_mappings]
     ELSE [colors |-> IntensityColors, minValue |-> min_mappings, maxValue |-> max_mappings]

\* description and domain are passed through unchanged and left out
layer(name, techs) ==
  [name |-> name,
   version |-> "3.0",
   sorting |-> 3,
   techniques |-> techs,
   gradient |-> Gradient(techs)]

(***************************************************************************)
(* toTechniquelist                                                         *)
(***************************************************************************)
\* the dict techniqueToMappedControls, in insertion order: entries [key, val]
DictHas(d, key) == \E k \in 1..Len(d) : d[k].key = key
DictIdx(d, key) == CHOOSE k \in 1..Len(d) : d[k].key = key
DictGet(d, key) == d[DictIdx(d, key)].val
DictAppend(d, key, x) ==
  IF DictHas(d, key)
  THEN [d EXCEPT ![DictIdx(d, key)].val = Append(@, x)]
  ELSE Append(d, [key |-> key, val |-> <<x>>])
DictSet(d, key, x) ==
  IF DictHas(d, key)
  THEN [d EXCEPT ![DictIdx(d, key)].val = x]
  ELSE Append(d, [key |-> key, val |-> x])

\* lines 46-56: the loop over mappings.query()
RECURSIVE MappedControls(_, _, _, _, _)
MappedControls(ctrls, maps, attack, k, d) ==
  IF k > Len(maps) THEN Ok(d)
  ELSE LET mapping == maps[k]
           control == Get(ctrls, mapping.source_ref)
           tech == Get(attack, mapping.target_ref)
       IN IF control = None THEN MappedControls(ctrls, maps, attack, k + 1, d)
          ELSE IF control.external_references = <<>> THEN Raise("IndexError")
          ELSE IF tech = None THEN Raise("TypeError")
          ELSE IF tech.external_references = <<>> THEN Raise("IndexError")
          ELSE MappedControls(ctrls, maps, attack, k + 1,
                 DictAppend(d, tech.external_references[1], control.external_references[1]))

\* line 60 left out: the lists keep their repetitions
KeepDuplicates(l) == l

\* line 60: list(set(...))
RemoveDuplicates(l) == Unique(l)

toTechniquelist(ctrls, maps, attack) ==
  LET r == MappedControls(ctrls, maps, attack, 1, <<>>)
  IN IF ~r.ok THEN r
     ELSE Ok([k \in 1..Len(r.val) |->
                technique(r.val[k].key, RemoveDuplicates(r.val[k].val))])

(***************************************************************************)
(* idToFamily = re.compile("(\w+)-.*"), and the family loop                *)
(***************************************************************************)
WordChars ==
  {"1", "2", "7", "A", "B", "C", "H", "L", "P", "S", "T", "_", "a", "b", "c",
   "e", "f", "i", "j", "l", "m", "n", "o", "p", "r", "s", "t", "v", "w", "x", "y"}

IsWord(c) == c \in WordChars

\* the lengths n for which \w+ can match s[a .. a+n-1] with "-" next (".*"
\* then matches the rest, possibly empty)
MatchLens(s, a) ==
  {n \in 1..(Len(s) - a) :
     /\ \A k \in a..(a + n - 1) : IsWord(s[k])
     /\ s[a + n] = "-"}

MatchStarts(s) == {a \in 1..Len(s) : MatchLens(s, a) # {}}

\* a search that keeps the last place the pattern matches
SearchLast(s) ==
  IF MatchStarts(s) = {} THEN None
  ELSE LET a == Max(MatchStarts(s))
           n == Max(MatchLens(s, a))
       IN [group1 |-> SubSeq(s, a, a + n - 1)]

\* idToFamily.search(s): the leftmost place the pattern matches, \w+ greedy;
\* None when it matches nowhere
Search(s) ==
  IF MatchStarts(s) = {} THEN None
  ELSE LET a == Min(MatchStarts(s))
           n == Max(MatchLens(s, a))
       IN [group1 |-> SubSeq(s, a, a + n - 1)]

X_MITRE_ == <<"x", "_", "m", "i", "t", "r", "e", "_">>
X_MITRE_FAMILY == X_MITRE_ \o <<"f", "a", "m", "i", "l", "y">>

\* property values: a string, or a list of strings
Scalar(str) == [isList |-> FALSE, str |-> str]
List(items) == [isList |-> TRUE, items |-> items]

\* the family's list replaced by the control instead of extended with it
FamilyBodyOverwrite(toControls, toName, control) ==
  IF control.external_references = <<>> THEN Raise("IndexError")
  ELSE LET m == Search(control.external_references[1])
       IN IF m = None THEN Raise("AttributeError")
          ELSE Ok([familyIDToControls |-> DictSet(toControls, m.group1, <<control>>),
                   familyIDToName |->
                     IF X_MITRE_FAMILY \in DOMAIN control.props
                     THEN DictSet(toName, m.group1, control.props[X_MITRE_FAMILY].str)
                     ELSE DictSet(toName, m.group1, m.group1)])

\* lines 72-80: one iteration of the family loop on the two dicts
FamilyBody(toControls, toName, control) ==
  IF control.external_references = <<>> THEN Raise("IndexError")
  ELSE LET m == Search(control.external_references[1])
       IN IF m = None THEN Raise("AttributeError")
          ELSE Ok([familyIDToControls |-> DictAppend(toControls, m.group1, control),
                   familyIDToName |->
                     IF X_MITRE_FAMILY \in DOMAIN control.props
                     THEN DictSet(toName, m.group1, control.props[X_MITRE_FAMILY].str)
                     ELSE DictSet(toName, m.group1, m.group1)])

\* lines 69-80: the whole loop
RECURSIVE FamilyLoop(_, _, _, _)
FamilyLoop(q, k, toControls, toName) ==
  IF k > Len(q) THEN Ok([familyIDToControls |-> toControls, familyIDToName |-> toName])
  ELSE LET r == FamilyBody(toControls, toName, q[k])
       IN IF ~r.ok THEN r
          ELSE FamilyLoop(q, k + 1, r.val.familyIDToControls, r.val.familyIDToName)

(***************************************************************************)
(* getLayersByProperty: the grouping of lines 129-144                      *)
(***************************************************************************)
\* control.get(x_mitre)
PropGet(control, key) == IF key \in DOMAIN control.props THEN control.props[key] ELSE None

\* "not value": None, the empty string and the empty list are false
Falsy(value) ==
  \/ value = None
  \/ value.isList /\ value.items = <<>>
  \/ ~value.isList /\ value.str = <<>>

RECURSIVE AddAll(_, _, _)
AddAll(d, items, control) ==
  IF items = <<>> THEN d
  ELSE AddAll(DictAppend(d, items[1], control), Tail(items), control)

\* a list value filed under its first element only
AddFirstOnly(d, control, value) ==
  IF Falsy(value) THEN d
  ELSE IF value.isList THEN DictAppend(d, value.items[1], control)
  ELSE DictAppend(d, value.str, control)

\* lines 139-144: one iteration of the grouping loop
AddByValue(d, control, value) ==
  IF Falsy(value) THEN d
  ELSE IF value.isList THEN AddAll(d, value.items, control)
  ELSE DictAppend(d, value.str, control)

RECURSIVE GroupLoop(_, _, _, _)
GroupLoop(q, k, key, d) ==
  IF k > Len(q) THEN d
  ELSE GroupLoop(q, k + 1, key, AddByValue(d, q[k], PropGet(q[k], key)))

(***************************************************************************)
(* Output paths                                                            *)
(***************************************************************************)
BY_FAMILY == <<"b", "y", " ", "f", "a", "m", "i", "l", "y">>
BY_ == <<"b", "y", " ">>
OVERVIEW_JSON == <<"-", "o", "v", "e", "r", "v", "i", "e", "w", ".", "j", "s", "o", "n">>
JSON == <<".", "j", "s", "o", "n">>
FrameworkName == <<"n", "i", "s", "t", "8", "0", "0", "-", "5", "3", "-", "r", "4">>

\* os.path.join(path, b)
Join2(path, b) ==
  IF b # <<>> /\ b[1] = "/" THEN b
  ELSE IF path = <<>> \/ path[Len(path)] = "/" THEN path \o b
  ELSE path \o <<"/">> \o b

Join3(a, b, c) == Join2(Join2(a, b), c)

\* '_'.join(s.split(' '))
SpacesToUnderscores(s) == [k \in 1..Len(s) |-> IF s[k] = " " THEN "_" ELSE s[k]]

\* the index of the first occurrence of sep in s at or after from, 0 if none
Find(s, sep, from) ==
  LET hits == {a \in from..(Len(s) - Len(sep) + 1) : SubSeq(s, a, a + Len(sep) - 1) = sep}
  IN IF hits = {} THEN 0 ELSE Min(hits)

\* s.split(sep)[1]
SplitSecond(s, sep) ==
  LET first == Find(s, sep, 1)
      from == first + Len(sep)
      second == Find(s, sep, from)
  IN IF first = 0 THEN Raise("IndexError")
     ELSE Ok(SubSeq(s, from, IF second = 0 THEN Len(s) ELSE second - 1))

Entry(outfile, name, techs) == [outfile |-> outfile, layer |-> layer(name, techs)]

(***************************************************************************)
(* getFrameworkOverviewLayers                                              *)
(***************************************************************************)
\* lines 108-121: the layers of the controls of one family
RECURSIVE ControlLayers(_, _, _, _, _, _)
ControlLayers(list, k, label, maps, attack, out) ==
  IF k > Len(list) THEN Ok(out)
  ELSE LET control == list[k]
           control_id == control.external_references[1]
           r == toTechniquelist(<<control>>, maps, attack)
       IN IF ~r.ok THEN r
          ELSE IF Len(r.val) > 0
          THEN ControlLayers(list, k + 1, label, maps, attack,
                 Append(out, Entry(Join3(BY_FAMILY, label, SpacesToUnderscores(control_id) \o JSON),
                                   control_id \o <<" ", "m", "a", "p", "p", "i", "n", "g", "s">>, r.val)))
          ELSE ControlLayers(list, k + 1, label, maps, attack, out)

\* lines 93-121: the loop over the families, in the dict's insertion order
RECURSIVE FamilyLayers(_, _, _, _, _, _)
FamilyLayers(toControls, toName, k, maps, attack, out) ==
  IF k > Len(toControls) THEN Ok(out)
  ELSE LET familyID == toControls[k].key
           label == DictGet(toName, familyID)
           r == toTechniquelist(toControls[k].val, maps, attack)
       IN IF ~r.ok THEN r
          ELSE IF Len(r.val) > 0
          THEN LET c == ControlLayers(toControls[k].val, 1, label, maps, attack,
                          Append(out, Entry(Join3(BY_FAMILY, label, familyID \o OVERVIEW_JSON),
                                            label \o <<" ", "o", "v", "e", "r", "v", "i", "e", "w">>, r.val)))
               IN IF ~c.ok THEN c
                  ELSE FamilyLayers(toControls, toName, k + 1, maps, attack, c.val)
          ELSE FamilyLayers(toControls, toName, k + 1, maps, attack, out)

\* lines 82-92: the global overview entry
OverviewEntry(techs) ==
  <<Entry(FrameworkName \o OVERVIEW_JSON, FrameworkName \o <<" ", "o", "v", "e", "r", "v", "i", "e", "w">>, techs)>>

getFrameworkOverviewLayers(ctrls, maps, attack) ==
  LET fam == FamilyLoop(QueryType(ctrls, COA), 1, <<>>, <<>>)
      ov == toTechniquelist(ctrls, maps, attack)
  IN IF ~fam.ok THEN fam
     ELSE IF ~ov.ok THEN ov
     ELSE FamilyLayers(fam.val.familyIDToControls, fam.val.familyIDToName, 1, maps, attack,
                       OverviewEntry(ov.val))

(***************************************************************************)
(* getLayersByProperty and get_x_mitre                                     *)
(***************************************************************************)
\* lines 146-161: one layer per property value that has mappings
RECURSIVE ValueLayers(_, _, _, _, _, _)
ValueLayers(d, k, propertyname, maps, attack, out) ==
  IF k > Len(d) THEN Ok(out)
  ELSE LET value == d[k].key
           r == toTechniquelist(d[k].val, maps, attack)
       IN IF ~r.ok THEN r
          ELSE IF Len(r.val) > 0
          THEN ValueLayers(d, k + 1, propertyname, maps, attack,
                 Append(out, Entry(Join2(BY_ \o propertyname, value \o JSON),
                                   propertyname \o <<"=">> \o value, r.val)))
          ELSE ValueLayers(d, k + 1, propertyname, maps, attack, out)

getLayersByProperty(ctrls, maps, attack, key) ==
  LET propertyname == SplitSecond(key, X_MITRE_)
  IN IF ~propertyname.ok THEN propertyname
     ELSE ValueLayers(GroupLoop(QueryType(ctrls, COA), 1, key, <<>>), 1,
                      propertyname.val, maps, attack, <<>>)

StartsWith(s, prefix) == Len(s) >= Len(prefix) /\ SubSeq(s, 1, Len(prefix)) = prefix

get_x_mitre(ms) ==
  LET q == QueryType(ms, COA)
  IN {key \in UNION {DOMAIN q[k].props : k \in 1..Len(q)} : StartsWith(key, X_MITRE_)}

(***************************************************************************)
(* String literals of the inputs and of the program.                       *)
(***************************************************************************)
S_AC1 == <<"A", "C", "-", "1">>
S_AC2 == <<"A", "C", "-", "2">>
S_SC71 == <<"S", "C", "-", "7", "(", "1", ")">>
S_T1 == <<"T", "1">>
S_T2 == <<"T", "2">>


NoProps == [k \in {} |-> <<>>]

Obj(id, type, refs, props) ==
  [id |-> id, type |-> type, external_references |-> refs, props |-> props]

Rel(src, tgt) == [source_ref |-> src, target_ref |-> tgt, relationship_type |-> "mitigates"]

\* sequences over S of length at most n
SeqsUpTo(S, n) == UNION {[1..k -> S] : k \in 0..n}

\* the sub-stores of a store: the objects at a set of positions, in store order
RECURSIVE Pick(_, _, _)
Pick(store, keep, k) ==
  IF k > Len(store) THEN <<>>
  ELSE IF k \in keep THEN <<store[k]>> \o Pick(store, keep, k + 1)
  ELSE Pick(store, keep, k + 1)

SubStores(store) == {Pick(store, keep, 1) : keep \in SUBSET (1..Len(store))}

(***************************************************************************)
(* Initial states: the arguments of the call (or the stores loaded by the  *)
(* run), everything else empty.                                            *)
(***************************************************************************)
InitWith(c, a, m, t, x, p) ==
  /\ controls = c
  /\ attackdata = a
  /\ mappings = m
  /\ techniques = t
  /\ x_mitre = x
  /\ pc = p
  /\ i = 1
  /\ familyIDToControls = <<>>
  /\ familyIDToName = <<>>
  /\ propertyValueToControls = <<>>
  /\ rows = <<>>
  /\ result = None
  /\ outlayers = <<>>
  /\ pending = {}
  /\ files = <<>>
  /\ nwritten = 0

(***************************************************************************)
(* SpecLayer: layer() applied to a technique list.                         *)
(***************************************************************************)
LayerTechIds == <<"T1", "T2", "T3", "T4", "T5">>

LayerInputs ==
  {[k \in 1..Len(sc) |-> [techniqueID |-> LayerTechIds[k], score |-> sc[k], comment |-> <<>>]] :
     sc \in SeqsUpTo(0..MaxScore, MaxTechs)}

InitLayer == \E t \in LayerInputs : InitWith(<<>>, <<>>, <<>>, t, <<>>, "layer")

CallLayer ==
  /\ pc = "layer"
  /\ result' = layer("layer", techniques)
  /\ pc' = "done"
  /\ UNCHANGED <<controls, attackdata, mappings, techniques, x_mitre, i,
                 familyIDToControls, familyIDToName, propertyValueToControls,
                 rows, outlayers, pending, files, nwritten>>

NextLayer == CallLayer

SpecLayer == InitLayer /\ [][NextLayer]_vars

(***************************************************************************)
(* SpecTech: toTechniquelist applied to a controls subset, a mapping list  *)
(* and a techniques store.                                                 *)
(***************************************************************************)
\* c1 and c3 are different objects with the same external id
TechControls ==
  <<Obj("c1", COA, <<S_AC1>>, NoProps),
    Obj("c2", COA, <<S_AC2>>, NoProps),
    Obj("c3", COA, <<S_AC1>>, NoProps)>>

TechAttack ==
  <<Obj("t1", "attack-pattern", <<S_T1>>, NoProps),
    Obj("t2", "attack-pattern", <<S_T2>>, NoProps)>>

\* "tX" is in no store
TechRels == {Rel(s, t) : s \in {"c1", "c2", "c3"}, t \in {"t1", "t2", "tX"}}

InitTech ==
  \E c \in SubStores(TechControls), m \in SeqsUpTo(TechRels, MaxTechMappings) :
    InitWith(c, TechAttack, m, <<>>, <<>>, "toTechniquelist")

CallToTechniquelist ==
  /\ pc = "toTechniquelist"
  /\ result' = toTechniquelist(controls, mappings, attackdata)
  /\ pc' = "done"
  /\ UNCHANGED <<controls, attackdata, mappings, techniques, x_mitre, i,
                 familyIDToControls, familyIDToName, propertyValueToControls,
                 rows, outlayers, pending, files, nwritten>>

NextTech == CallToTechniquelist

SpecTech == InitTech /\ [][NextTech]_vars

(***************************************************************************)
(* SpecFamily: the family loop of getFrameworkOverviewLayers (lines 69-80),*)
(* one iteration per step.                                                 *)
(***************************************************************************)
S_NOHYPHEN == <<"A", "C", "1">>
S_ACC == <<"A", "c", "c">>
S_SYS == <<"S", "y", "s">>

FamilyProps == {NoProps} \cup {[k \in {X_MITRE_FAMILY} |-> Scalar(n)] : n \in {S_ACC, S_SYS}}

FamIds == {S_AC1, S_AC2, S_SC71, S_NOHYPHEN}

IdAlphabet == {"A", "1", "-", "(", " "}

StoreIds == <<"c1", "c2", "c3", "c4">>

\* stores of at most n objects, the k-th with id StoreIds[k] and its other
\* fields from pool
Stores(pool, n) ==
  {[k \in 1..Len(sq) |-> Obj(StoreIds[k], sq[k].type, sq[k].refs, sq[k].props)] :
     sq \in SeqsUpTo(pool, n)}

FamPool == {[type |-> COA, refs |-> <<e>>, props |-> p] : e \in FamIds, p \in FamilyProps}
            \cup {[type |-> "x-other", refs |-> <<S_AC1>>, props |-> NoProps],
                  [type |-> COA, refs |-> <<>>, props |-> NoProps]}

\* one control, its external id any string over IdAlphabet up to MaxIdLen
FamSingles ==
  {<<Obj("c1", COA, <<e>>, NoProps)>> : e \in SeqsUpTo(IdAlphabet, MaxIdLen)}

InitFamily ==
  \E c \in Stores(FamPool, MaxFamControls) \cup FamSingles :
    InitWith(c, <<>>, <<>>, <<>>, <<>>, "family")

FamilyQuery == QueryType(controls, COA)

FamilyStep ==
  /\ pc = "family"
  /\ i <= Len(FamilyQuery)
  /\ LET r == FamilyBody(familyIDToControls, familyIDToName, FamilyQuery[i])
     IN \/ /\ r.ok
           /\ familyIDToControls' = r.val.familyIDToControls
           /\ familyIDToName' = r.val.familyIDToName
           /\ i' = i + 1
           /\ UNCHANGED <<pc, result>>
        \/ /\ ~r.ok
           /\ result' = r
           /\ pc' = "aborted"
           /\ UNCHANGED <<i, familyIDToControls, familyIDToName>>
  /\ UNCHANGED <<controls, attackdata, mappings, techniques, x_mitre,
                 propertyValueToControls, rows, outlayers, pending, files, nwritten>>

FamilyDone ==
  /\ pc = "family"
  /\ i > Len(FamilyQuery)
  /\ pc' = "done"
  /\ UNCHANGED <<controls, attackdata, mappings, techniques, x_mitre, i,
                 familyIDToControls, familyIDToName, propertyValueToControls,
                 rows, result, outlayers, pending, files, nwritten>>

NextFamily == FamilyStep \/ FamilyDone

SpecFamily == InitFamily /\ [][NextFamily]_vars

(***************************************************************************)
(* SpecProp: getLayersByProperty, the grouping loop (lines 138-144) one    *)
(* iteration per step, then the layers (lines 146-163).                    *)
(***************************************************************************)
X_MITRE_IMPACT == X_MITRE_ \o <<"i", "m", "p", "a", "c", "t">>
S_A == <<"a">>
S_B == <<"b">>
S_X == <<"x">>

PropValues ==
  {Scalar(<<>>), Scalar(S_X), List(<<>>), List(<<S_A>>), List(<<S_A, S_B>>), List(<<S_X, S_A>>)}

PropPool ==
  {[type |-> t, refs |-> <<S_AC1>>, props |-> p] :
     t \in {COA, "x-other"},
     p \in {NoProps} \cup {[k \in {X_MITRE_IMPACT} |-> v] : v \in PropValues}}

PropMappings == <<Rel("c1", "t1"), Rel("c2", "t2"), Rel("c3", "t1")>>

InitProp ==
  \E c \in Stores(PropPool, MaxPropControls) :
    InitWith(c, TechAttack, PropMappings, <<>>, X_MITRE_IMPACT, "group")

GroupStep ==
  /\ pc = "group"
  /\ i <= Len(FamilyQuery)
  /\ propertyValueToControls' =
       AddByValue(propertyValueToControls, FamilyQuery[i], PropGet(FamilyQuery[i], x_mitre))
  /\ i' = i + 1
  /\ UNCHANGED <<controls, attackdata, mappings, techniques, x_mitre, pc,
                 familyIDToControls, familyIDToName, rows, result, outlayers,
                 pending, files, nwritten>>

PropertyLayers ==
  /\ pc = "group"
  /\ i > Len(FamilyQuery)
  /\ LET name == SplitSecond(x_mitre, X_MITRE_)
         r == IF ~name.ok THEN name
              ELSE ValueLayers(propertyValueToControls, 1, name.val, mappings, attackdata, <<>>)
     IN /\ result' = r
        /\ pc' = IF r.ok THEN "done" ELSE "aborted"
  /\ UNCHANGED <<controls, attackdata, mappings, techniques, x_mitre, i,
                 familyIDToControls, familyIDToName, propertyValueToControls,
                 rows, outlayers, pending, files, nwritten>>

NextProp == GroupStep \/ PropertyLayers

SpecProp == InitProp /\ [][NextProp]_vars

(***************************************************************************)
(* SpecDf: list_mappings.mappings_to_df, one relationship per step, then   *)
(* the DataFrame and its sort.                                             *)
(***************************************************************************)
BundleObj(id, name, refs) == [id |-> id, name |-> name, external_references |-> refs]

DfControls == <<BundleObj("c1", "Account Management", <<S_AC2>>),
                BundleObj("c2", "Access Control Policy", <<S_AC1>>)>>

DfAttack == <<BundleObj("t1", "Phishing", <<S_T2>>),
              BundleObj("t2", "Valid Accounts", <<S_T1>>)>>

DfRels == {Rel(s, t) : s \in {"c1", "c2", "cX"}, t \in {"t1", "t2", "tX"}}

RowLess(a, b) ==
  \/ StrLess(a.ControlID, b.ControlID)
  \/ a.ControlID = b.ControlID /\ StrLess(a.TechniqueID, b.TechniqueID)

RECURSIVE InsertRow(_, _)
InsertRow(s, x) ==
  IF s = <<>> THEN <<x>>
  ELSE IF RowLess(x, s[1]) THEN <<x>> \o s
  ELSE <<s[1]>> \o InsertRow(Tail(s), x)

RECURSIVE SortRows(_)
SortRows(s) ==
  IF s = <<>> THEN <<>> ELSE InsertRow(SortRows(SubSeq(s, 1, Len(s) - 1)), s[Len(s)])

\* pandas.DataFrame(rows).sort_values(['Control ID', 'Technique ID']): a frame
\* built from no rows has no columns, and sorting by a missing column raises
SortValues(rs) == IF rs = <<>> THEN Raise("KeyError") ELSE Ok(SortRows(rs))

InitDf ==
  \E m \in SeqsUpTo(DfRels, MaxDfMappings) :
    InitWith(DfControls, DfAttack, m, <<>>, <<>>, "df_loop")

\* lines 16-37: one relationship
DfStep ==
  /\ pc = "df_loop"
  /\ i <= Len(mappings)
  /\ LET mapping == mappings[i]
         control == Get(controls, mapping.source_ref)
         tech == Get(attackdata, mapping.target_ref)
     IN IF control = None \/ tech = None
        THEN /\ pc' = "aborted"
             /\ result' = Raise("SystemExit")
             /\ UNCHANGED <<rows, i>>
        ELSE /\ rows' = Append(rows, [ControlID |-> control.external_references[1],
                                      ControlName |-> control.name,
                                      MappingType |-> mapping.relationship_type,
                                      TechniqueID |-> tech.external_references[1],
                                      TechniqueName |-> tech.name])
             /\ i' = i + 1
             /\ UNCHANGED <<pc, result>>
  /\ UNCHANGED <<controls, attackdata, mappings, techniques, x_mitre,
                 familyIDToControls, familyIDToName, propertyValueToControls,
                 outlayers, pending, files, nwritten>>

\* lines 39-42
DfSort ==
  /\ pc = "df_loop"
  /\ i > Len(mappings)
  /\ result' = SortValues(rows)
  /\ pc' = IF SortValues(rows).ok THEN "done" ELSE "aborted"
  /\ UNCHANGED <<controls, attackdata, mappings, techniques, x_mitre, i,
                 familyIDToControls, familyIDToName, propertyValueToControls,
                 rows, outlayers, pending, files, nwritten>>

NextDf == DfStep \/ DfSort

SpecDf == InitDf /\ [][NextDf]_vars

(***************************************************************************)
(* SpecOverview: getFrameworkOverviewLayers applied to the three stores.   *)
(***************************************************************************)
OvPool ==
  {[type |-> t, refs |-> <<e>>, props |-> NoProps] :
     t \in {COA, "x-other"}, e \in {S_AC1, S_AC2, S_SC71}}
  \cup {[type |-> COA, refs |-> <<>>, props |-> NoProps]}

OvRels == {Rel(StoreIds[k], t) : k \in 1..MaxOvControls, t \in {"t1", "t2"}}

InitOverview ==
  \E c \in Stores(OvPool, MaxOvControls), m \in SeqsUpTo(OvRels, MaxOvMappings) :
    InitWith(c, TechAttack, m, <<>>, <<>>, "overview")

CallOverview ==
  /\ pc = "overview"
  /\ result' = getFrameworkOverviewLayers(controls, mappings, attackdata)
  /\ pc' = IF result'.ok THEN "done" ELSE "aborted"
  /\ UNCHANGED <<controls, attackdata, mappings, techniques, x_mitre, i,
                 familyIDToControls, familyIDToName, propertyValueToControls,
                 rows, outlayers, pending, files, nwritten>>

NextOverview == CallOverview

SpecOverview == InitOverview /\ [][NextOverview]_vars

(***************************************************************************)
(* Spec: the run of mappingsToHeatmaps.py (lines 210-230): the layers are  *)
(* built, then written one file per step.                                  *)
(***************************************************************************)
X_MITRE_PRIORITY == X_MITRE_ \o <<"p", "r", "i", "o", "r", "i", "t", "y">>
S_LOW == <<"L", "O", "W">>
S_HIGH == <<"H", "I", "G", "H">>
S_P1 == <<"P", "1">>
S_SC7SP == <<"S", "C", "-", "7", " ", "(", "1", ")">>

RunProps ==
  {[k \in {X_MITRE_FAMILY, X_MITRE_IMPACT} |->
      IF k = X_MITRE_FAMILY THEN Scalar(S_ACC) ELSE List(<<S_LOW, S_HIGH>>)],
   [k \in {X_MITRE_PRIORITY} |-> Scalar(S_P1)]}

RunPool ==
  {[type |-> COA, refs |-> r, props |-> p] :
     r \in {<<>>, <<S_AC1>>, <<S_SC7SP>>, <<S_NOHYPHEN>>}, p \in RunProps}

RunAttack == <<Obj("t1", "attack-pattern", <<S_T1>>, NoProps)>>

\* "tX" is in no store
RunRels == {Rel(StoreIds[k], "t1") : k \in 1..MaxControls} \cup {Rel("c1", "tX")}

Init ==
  \E c \in Stores(RunPool, MaxControls), m \in SeqsUpTo(RunRels, MaxMappings) :
    InitWith(c, RunAttack, m, <<>>, <<>>, "start")

\* line 212
BuildOverview ==
  /\ pc = "start"
  /\ LET r == getFrameworkOverviewLayers(controls, mappings, attackdata)
     IN IF r.ok
        THEN /\ outlayers' = r.val
             /\ pending' = get_x_mitre(controls)
             /\ pc' = "properties"
             /\ UNCHANGED result
        ELSE /\ result' = r
             /\ pc' = "aborted"
             /\ UNCHANGED <<outlayers, pending>>
  /\ UNCHANGED <<controls, attackdata, mappings, techniques, x_mitre, i,
                 familyIDToControls, familyIDToName, propertyValueToControls,
                 rows, files, nwritten>>

\* line 214: the family property is passed over
SkipFamily ==
  /\ pc = "properties"
  /\ X_MITRE_FAMILY \in pending
  /\ pending' = pending \ {X_MITRE_FAMILY}
  /\ UNCHANGED <<controls, attackdata, mappings, techniques, x_mitre, pc, i,
                 familyIDToControls, familyIDToName, propertyValueToControls,
                 rows, result, outlayers, files, nwritten>>

\* line 215: the keys of the set come in any order
BuildProperty ==
  /\ pc = "properties"
  /\ \E property \in pending \ {X_MITRE_FAMILY} :
       LET r == getLayersByProperty(controls, mappings, attackdata, property)
       IN /\ pending' = pending \ {property}
          /\ IF r.ok
             THEN /\ outlayers' = outlayers \o r.val
                  /\ UNCHANGED <<pc, result>>
             ELSE /\ result' = r
                  /\ pc' = "aborted"
                  /\ UNCHANGED outlayers
  /\ UNCHANGED <<controls, attackdata, mappings, techniques, x_mitre, i,
                 familyIDToControls, familyIDToName, propertyValueToControls,
                 rows, files, nwritten>>

\* the loop of line 213 is over
PropertiesDone ==
  /\ pc = "properties"
  /\ pending = {}
  /\ pc' = "write"
  /\ UNCHANGED <<controls, attackdata, mappings, techniques, x_mitre, i,
                 familyIDToControls, familyIDToName, propertyValueToControls,
                 rows, result, outlayers, pending, files, nwritten>>

\* a write loop that starts as soon as some layer is there
WriteLayerEarly ==
  /\ pc \in {"properties", "write"}
  /\ i <= Len(outlayers)
  /\ files' = DictSet(files, outlayers[i].outfile, outlayers[i].layer)
  /\ nwritten' = nwritten + 1
  /\ i' = i + 1
  /\ UNCHANGED <<controls, attackdata, mappings, techniques, x_mitre, pc,
                 familyIDToControls, familyIDToName, propertyValueToControls,
                 rows, result, outlayers, pending>>

\* lines 222-229: open(outfile, "w") and json.dump, one layer
WriteLayer ==
  /\ pc = "write"
  /\ i <= Len(outlayers)
  /\ files' = DictSet(files, outlayers[i].outfile, outlayers[i].layer)
  /\ nwritten' = nwritten + 1
  /\ i' = i + 1
  /\ UNCHANGED <<controls, attackdata, mappings, techniques, x_mitre, pc,
                 familyIDToControls, familyIDToName, propertyValueToControls,
                 rows, result, outlayers, pending>>

\* line 230
Finish ==
  /\ pc = "write"
  /\ i > Len(outlayers)
  /\ pc' = "done"
  /\ UNCHANGED <<controls, attackdata, mappings, techniques, x_mitre, i,
                 familyIDToControls, familyIDToName, propertyValueToControls,
                 rows, result, outlayers, pending, files, nwritten>>

Next == BuildOverview \/ SkipFamily \/ BuildProperty \/ PropertiesDone \/ WriteLayer \/ Finish

Spec == Init /\ [][Next]_vars

(***************************************************************************)
(* Claims on layer() and toTechniquelist                                   *)
(***************************************************************************)
AllEqual(techs) == \A j, k \in 1..Len(techs) : techs[j].score = techs[k].score

\* C3: for a non-empty technique list, layer() gives minValue 0, maxValue the
\* common score and the neutral colours when all scores are equal, and the
\* smallest and largest score with the intensity colours otherwise; and
\* minValue < maxValue unless the common score is 0.
C3_Gradient ==
  (pc = "done" /\ Len(techniques) > 0) =>
    LET g == result.gradient
    IN /\ AllEqual(techniques) =>
            /\ g.minValue = 0
            /\ g.maxValue = techniques[1].score
            /\ g.colors = <<"#ffffff", "#66b1ff">>
       /\ ~AllEqual(techniques) =>
            /\ \E k \in 1..Len(techniques) : g.minValue = techniques[k].score
            /\ \A k \in 1..Len(techniques) : g.minValue <= techniques[k].score
            /\ \E k \in 1..Len(techniques) : g.maxValue = techniques[k].score
            /\ \A k \in 1..Len(techniques) : g.maxValue >= techniques[k].score
            /\ g.colors = <<"#ACD0E6", "#08336E">>
       /\ \/ g.minValue < g.maxValue
          \/ (AllEqual(techniques) /\ techniques[1].score = 0)

\* a uniform list of several techniques with a positive score has been built
C3_Witness ==
  /\ pc = "done"
  /\ Len(techniques) >= 2
  /\ AllEqual(techniques)
  /\ techniques[1].score > 0
  /\ result.gradient.minValue = 0

\* the mappings toTechniquelist keeps: those whose source is in the subset
Relevant == {k \in 1..Len(mappings) : Get(controls, mappings[k].source_ref) # None}
TargetId(k) == Get(attackdata, mappings[k].target_ref).external_references[1]
SourceId(k) == Get(controls, mappings[k].source_ref).external_references[1]
Contributors(tid) == {SourceId(k) : k \in {r \in Relevant : TargetId(r) = tid}}

\* C2: toTechniquelist returns exactly one entry per technique external id
\* targeted by a mapping whose source is in the controls subset, with score
\* the number of distinct control external ids among those mappings; no
\* entry has score 0.
C2_Scores ==
  (pc = "done" /\ result.ok) =>
    LET techs == result.val
    IN /\ {techs[k].techniqueID : k \in 1..Len(techs)} = {TargetId(k) : k \in Relevant}
       /\ \A j, k \in 1..Len(techs) : techs[j].techniqueID = techs[k].techniqueID => j = k
       /\ \A k \in 1..Len(techs) :
            /\ techs[k].score = Cardinality(Contributors(techs[k].techniqueID))
            /\ techs[k].score # 0

\* two relationships between the same (control, technique) pair and a third
\* one from a control outside the subset: the technique scores 1
C2_Witness ==
  /\ pc = "done"
  /\ result.ok
  /\ \E j, k \in Relevant : j # k /\ mappings[j] = mappings[k]
  /\ \E k \in 1..Len(mappings) : k \notin Relevant
  /\ Len(result.val) = 1
  /\ result.val[1].score = 1

(***************************************************************************)
(* Claim on mappings_to_df (SpecDf)                                        *)
(***************************************************************************)
AllResolve ==
  \A k \in 1..Len(mappings) :
    /\ Get(controls, mappings[k].source_ref) # None
    /\ Get(attackdata, mappings[k].target_ref) # None

\* C1: for every mapping list, the empty one included, whose references all
\* resolve, mappings_to_df returns one row per relationship; if a reference
\* does not resolve the run aborts and returns no rows.
C1_RowPerRelationship ==
  (pc \in {"done", "aborted"}) =>
    IF AllResolve
    THEN pc = "done" /\ result.ok /\ Len(result.val) = Len(mappings)
    ELSE pc = "aborted" /\ ~result.ok

(***************************************************************************)
(* Claims on the family loop (SpecFamily)                                  *)
(***************************************************************************)
\* how many times control c is filed in familyIDToControls
TimesFiled(c) ==
  Cardinality({<<k, j>> \in (1..Len(familyIDToControls)) \X (1..MaxFamControls + 1) :
                 /\ j <= Len(familyIDToControls[k].val)
                 /\ familyIDToControls[k].val[j] = c})

FamilyKeyOf(c) ==
  familyIDToControls[CHOOSE k \in 1..Len(familyIDToControls) :
                       c \in SeqToSet(familyIDToControls[k].val)].key

HasHyphen(s) == \E k \in 1..Len(s) : s[k] = "-"

\* key is a run of word characters of s that ends right before a hyphen, starts
\* at the start of s or after a non-word character, and no hyphen before it
\* follows a word character
IsFamilyCode(s, key) ==
  \E a \in 1..Len(s) :
    LET n == Len(key)
    IN /\ n >= 1
       /\ a + n <= Len(s)
       /\ SubSeq(s, a, a + n - 1) = key
       /\ \A k \in 1..n : IsWord(key[k])
       /\ s[a + n] = "-"
       /\ (a = 1 \/ ~IsWord(s[a - 1]))
       /\ \A h \in 2..(a + n - 1) : s[h] = "-" => ~IsWord(s[h - 1])

\* the text before the first hyphen, when it is one or more word characters
WordPrefix(s) ==
  LET h == Min({k \in 1..Len(s) : s[k] = "-"})
  IN IF h > 1 /\ \A k \in 1..(h - 1) : IsWord(s[k]) THEN SubSeq(s, 1, h - 1) ELSE <<>>

\* C6: every control the family loop has passed is filed in exactly one family
\* partition, keyed by the word characters that precede the hyphen of its
\* external id (its prefix, as in "AC-1" -> "AC", "SC-7(1)" -> "SC"); a control
\* whose id has no hyphen is never filed: the loop aborts on it.
C6_FamilyPartition ==
  /\ \A k \in 1..(i - 1) :
       LET c == FamilyQuery[k]
           s == c.external_references[1]
       IN /\ TimesFiled(c) = 1
          /\ HasHyphen(s)
          /\ IsFamilyCode(s, FamilyKeyOf(c))
          /\ WordPrefix(s) # <<>> => FamilyKeyOf(c) = WordPrefix(s)
  /\ pc = "aborted" => TimesFiled(FamilyQuery[i]) = 0
  /\ \A k \in 1..Len(FamilyQuery) :
       (k < i \/ pc = "done") => FamilyQuery[k].external_references # <<>>

\* the loop has ended with "SC-7(1)" filed under "SC" and "AC-1" under "AC"
C6_Witness ==
  /\ pc = "done"
  /\ \E j, k \in 1..Len(FamilyQuery) :
       /\ FamilyQuery[j].external_references = <<S_SC71>>
       /\ FamilyKeyOf(FamilyQuery[j]) = <<"S", "C">>
       /\ FamilyQuery[k].external_references = <<S_AC1>>
       /\ FamilyKeyOf(FamilyQuery[k]) = <<"A", "C">>

\* C9: the label of a family is the family-name property carried by its
\* controls, and the family code only when no control of the family carries
\* the property, whatever the order of the controls.
C9_FamilyLabel ==
  pc = "done" =>
    \A k \in 1..Len(familyIDToControls) :
      LET familyID == familyIDToControls[k].key
          carriers == {c \in SeqToSet(familyIDToControls[k].val) :
                         X_MITRE_FAMILY \in DOMAIN c.props}
          label == DictGet(familyIDToName, familyID)
      IN IF carriers = {} THEN label = familyID
         ELSE label \in {c.props[X_MITRE_FAMILY].str : c \in carriers}

(***************************************************************************)
(* Claim on the property grouping (SpecProp)                               *)
(***************************************************************************)
PropStrings == {<<>>, S_A, S_B, S_X}

Member(c, v) ==
  /\ DictHas(propertyValueToControls, v)
  /\ c \in SeqToSet(DictGet(propertyValueToControls, v))

Defines(c) == x_mitre \in DOMAIN c.props

HasValue(c, v) ==
  /\ Defines(c)
  /\ \/ c.props[x_mitre].isList /\ v \in SeqToSet(c.props[x_mitre].items)
     \/ ~c.props[x_mitre].isList /\ c.props[x_mitre].str = v

\* the value is the empty string or the empty list
EmptyValue(c) ==
  /\ Defines(c)
  /\ \/ c.props[x_mitre].isList /\ Len(c.props[x_mitre].items) = 0
     \/ ~c.props[x_mitre].isList /\ Len(c.props[x_mitre].str) = 0

GroupingDone == pc = "done" \/ (pc = "group" /\ i > Len(FamilyQuery))

EndsWith(s, suffix) ==
  Len(s) >= Len(suffix) /\ SubSeq(s, Len(s) - Len(suffix) + 1, Len(s)) = suffix

ScoreIn(entry, tid) ==
  LET techs == entry.layer.techniques
  IN IF \E k \in 1..Len(techs) : techs[k].techniqueID = tid
     THEN techs[CHOOSE k \in 1..Len(techs) : techs[k].techniqueID = tid].score
     ELSE 0

\* the family overview entries: those after the first whose name is "... overview"
FamilyOverviews(out) ==
  {k \in 2..Len(out) : EndsWith(out[k].layer.name, <<" ", "o", "v", "e", "r", "v", "i", "e", "w">>)}

RECURSIVE SumScores(_, _, _)
SumScores(out, ks, tid) ==
  IF ks = {} THEN 0
  ELSE LET k == CHOOSE x \in ks : TRUE
       IN ScoreIn(out[k], tid) + SumScores(out, ks \ {k}, tid)

FamilySum(out, tid) == SumScores(out, FamilyOverviews(out), tid)

\* every object of the controls store that a mapping starts from is a control
SourcesAreControls ==
  \A k \in 1..Len(mappings) :
    LET o == Get(controls, mappings[k].source_ref)
    IN o # None => o.type = COA

\* C10 as stated: when getFrameworkOverviewLayers completes, every technique's
\* score in the global overview is the sum of its scores over the family
\* overviews.
C10_Original ==
  (pc = "done" /\ result.ok) =>
    \A tid \in {S_T1, S_T2} : ScoreIn(result.val[1], tid) = FamilySum(result.val, tid)

\* C10 amended: the overview score is the sum of the family scores when every
\* object of the controls store that a mapping starts from has type
\* course-of-action; in every case it is at least that sum.
C10_Amended ==
  (pc = "done" /\ result.ok) =>
    \A tid \in {S_T1, S_T2} :
      /\ ScoreIn(result.val[1], tid) >= FamilySum(result.val, tid)
      /\ SourcesAreControls => ScoreIn(result.val[1], tid) = FamilySum(result.val, tid)

\* a technique scores 2 in the overview and 1 in each of two family overviews
C10_Witness ==
  /\ pc = "done"
  /\ result.ok
  /\ SourcesAreControls
  /\ \E tid \in {S_T1, S_T2} :
       /\ ScoreIn(result.val[1], tid) = 2
       /\ Cardinality({k \in FamilyOverviews(result.val) : ScoreIn(result.val[k], tid) = 1}) = 2

(***************************************************************************)
(* Claims on the run (Spec)                                                *)
(***************************************************************************)
\* C4: every layer the run emits has a non-empty technique list; a partition
\* without mappings gives no layer entry and no file.
C4_NoEmptyLayer ==
  /\ \A k \in 1..Len(outlayers) : Len(outlayers[k].layer.techniques) > 0
  /\ \A k \in 1..Len(files) : Len(files[k].val.techniques) > 0

\* C5: the output paths of the emitted layers are pairwise distinct, so that
\* no write replaces a file written earlier in the run.
C5_DistinctPaths ==
  /\ \A j, k \in 1..Len(outlayers) : j # k => outlayers[j].outfile # outlayers[k].outfile
  /\ Len(files) = nwritten

\* C8: a run that aborts has written nothing; a file is written only after
\* every layer has been built; a run that ends has written every layer.
C8_FailFast ==
  /\ pc = "aborted" => (nwritten = 0 /\ files = <<>>)
  /\ nwritten > 0 => (pc \in {"write", "done"} /\ pending = {})
  /\ \A k \in 1..Len(files) :
       \E j \in 1..Len(outlayers) :
         files[k].key = outlayers[j].outfile /\ files[k].val = outlayers[j].layer
  /\ pc = "done" =>
       /\ nwritten = Len(outlayers)
       /\ \A j \in 1..Len(outlayers) : DictHas(files, outlayers[j].outfile)

\* a mapping of a control targets an object that is in no store: the run has
\* aborted, with no file
C8_Witness ==
  /\ pc = "aborted"
  /\ result = Raise("TypeError")
  /\ Len(controls) = 2
  /\ files = <<>>

====
